---- MODULE Spec2Model ----
(***************************************************************************)
(* Model of .github/scripts/src/ai/diff.ts: the unified-diff parser        *)
(* (DiffParser) and the side-by-side renderer (TextFormatter), joined by   *)
(* the exported formatDiff.  Lines of text are TLA+ strings; a character   *)
(* is a string of length one.                                              *)
(***************************************************************************)
EXTENDS Integers, Sequences, FiniteSets, TLC

\* ------------------------------------------------------------------ bounds

\* longest input, in lines, of the free-form input family
MaxLines == 4
\* longest file head, in lines after the marker, of the file-head input family
MaxMeta == 3
\* longest hunk body, in lines, of the hunk-body input family
MaxBody == 3
\* largest number written in a generated hunk header
MaxNum == 10
\* largest number of DiffLines of a hunk handed directly to the formatter
MaxHunkLines == 4
\* widest TextFormatter configuration handed directly to the formatter
MaxWidth == 10
\* longest in_reply_to chain above the triggering comment
MaxThread == 2

\* ------------------------------------------------------------ string helpers

Max(a, b) == IF a >= b THEN a ELSE b

Min(a, b) == IF a <= b THEN a ELSE b

\* the characters a..b (1-based, inclusive) of s that exist
Slice(s, a, b) ==
    IF a > b \/ a > Len(s) \/ b < 1 THEN ""
    ELSE SubSeq(s, Max(a, 1), Min(b, Len(s)))

CharAt(s, i) == Slice(s, i, i)

\* String.prototype.startsWith
StartsWith(s, p) == Len(s) >= Len(p) /\ Slice(s, 1, Len(p)) = p

\* String.prototype.substring(from) with a 0-based index
SubstringFrom(s, from) == Slice(s, from + 1, Len(s))

\* String.prototype.substring(0, to); a negative end is treated as 0
SubstringTo(s, to) == Slice(s, 1, Max(0, to))

RECURSIVE Repeat(_, _)
\* String.prototype.repeat
Repeat(s, n) ==
    IF n <= 0 THEN ""
    ELSE LET half == Repeat(s, n \div 2)
         IN  half \o half \o (IF n % 2 = 1 THEN s ELSE "")

\* String.prototype.padEnd with the default pad character
PadEnd(s, n) == s \o Repeat(" ", n - Len(s))

\* String.prototype.padStart with the default pad character
PadStart(s, n) == Repeat(" ", n - Len(s)) \o s

\* String.prototype.trimEnd (the white space of the model: blank and newline)
WhiteSpace == {" ", "\n"}
TrimEnd(s) ==
    LET kept == {k \in 1..Len(s) : CharAt(s, k) \notin WhiteSpace}
    IN  IF kept = {} THEN ""
        ELSE Slice(s, 1, CHOOSE k \in kept : \A m \in kept : m <= k)

RECURSIVE Join(_, _)
\* Array.prototype.join
Join(rows, sep) ==
    IF Len(rows) = 0 THEN ""
    ELSE IF Len(rows) = 1 THEN rows[1]
    ELSE rows[1] \o sep \o Join(Tail(rows), sep)

Digits == <<"0", "1", "2", "3", "4", "5", "6", "7", "8", "9">>

IsDigit(c) == \E d \in 1..Len(Digits) : Digits[d] = c

DigitValue(c) == (CHOOSE d \in 1..Len(Digits) : Digits[d] = c) - 1

RECURSIVE ParseInt(_)
\* parseInt of a string of decimal digits
ParseInt(s) ==
    IF Len(s) = 0 THEN 0
    ELSE ParseInt(Slice(s, 1, Len(s) - 1)) * Len(Digits) + DigitValue(CharAt(s, Len(s)))

RECURSIVE NumToString(_)
\* Number.prototype.toString of a non-negative integer
NumToString(n) ==
    IF n < Len(Digits) THEN Digits[n + 1]
    ELSE NumToString(n \div Len(Digits)) \o Digits[(n % Len(Digits)) + 1]

RECURSIVE DigitRun(_, _)
\* the number of consecutive digits of s from the 1-based position i on (\d+)
DigitRun(s, i) ==
    IF i <= Len(s) /\ IsDigit(CharAt(s, i)) THEN 1 + DigitRun(s, i + 1) ELSE 0

\* an absent value (null, or an unmatched capture group) and a present one
None == <<>>
Some(v) == <<v>>

\* ------------------------------------------------------------- the markers

DIFF_GIT == "diff --git"
HUNK_MARK == "@@"
OLD_PATH_MARK == "---"
NEW_PATH_MARK == "+++"
BINARY_FILES == "Binary files"
NO_NEWLINE_MARK == "\\"

\* /^diff --git a\/(.*) b\/(.*)$/ : the first group is greedy, so the two
\* paths are split at the last " b/" of the line.
FileMarkerPrefix == DIFF_GIT \o " a/"
FileMarkerMiddle == " b/"

FileMarkerSplits(line) ==
    { k \in (Len(FileMarkerPrefix) + 1)..Len(line) :
        Slice(line, k, k + Len(FileMarkerMiddle) - 1) = FileMarkerMiddle }

FileMarkerMatch(line) ==
    IF StartsWith(line, FileMarkerPrefix) /\ FileMarkerSplits(line) # {}
    THEN LET k == CHOOSE m \in FileMarkerSplits(line) :
                    \A n \in FileMarkerSplits(line) : n <= m
         IN  Some([oldFile |-> Slice(line, Len(FileMarkerPrefix) + 1, k - 1),
                   newFile |-> Slice(line, k + Len(FileMarkerMiddle), Len(line))])
    ELSE None

\* /^@@ -(\d+)(?:,(\d+))? \+(\d+)(?:,(\d+))? @@/ : a number, then an optional
\* ",number"; the result is the position after it and the two groups.
NumberPair(s, i) ==
    LET n1 == DigitRun(s, i)
        j  == i + n1
        n2 == IF CharAt(s, j) = "," THEN DigitRun(s, j + 1) ELSE 0
    IN  IF n1 = 0 THEN None
        ELSE IF CharAt(s, j) = ","
        THEN IF n2 = 0 THEN None
             ELSE Some([start |-> Slice(s, i, j - 1),
                        count |-> Some(Slice(s, j + 1, j + n2)),
                        next  |-> j + 1 + n2])
        ELSE Some([start |-> Slice(s, i, j - 1), count |-> None, next |-> j])

HunkHeaderOpen == HUNK_MARK \o " -"
HunkHeaderMiddle == " +"
HunkHeaderClose == " " \o HUNK_MARK

HunkHeaderMatch(line) ==
    IF ~StartsWith(line, HunkHeaderOpen) THEN None
    ELSE LET old == NumberPair(line, Len(HunkHeaderOpen) + 1)
         IN  IF old = None THEN None
             ELSE LET p == old[1].next
                  IN  IF Slice(line, p, p + Len(HunkHeaderMiddle) - 1) # HunkHeaderMiddle
                      THEN None
                      ELSE LET new == NumberPair(line, p + Len(HunkHeaderMiddle))
                           IN  IF new = None THEN None
                               ELSE LET q == new[1].next
                                    IN  IF Slice(line, q, q + Len(HunkHeaderClose) - 1)
                                             = HunkHeaderClose
                                        THEN Some(<<old[1].start, old[1].count,
                                                    new[1].start, new[1].count>>)
                                        ELSE None

\* ------------------------------------------------------------------ state

VARIABLES
    lines,        \* DiffParser.lines: the input text split at "\n"
    currentLine,  \* DiffParser.currentLine: the 0-based cursor
    lastRead,     \* the index of the last line read (-1: none yet)
    pc,           \* the position of the control in parse / format
    fileDiffs,    \* parse: the FileDiffs found so far
    oldFile,      \* parseFileDiff: match[1]
    newFile,      \* parseFileDiff: match[2]
    hunks,        \* parseFileDiff: the hunks of the open file-diff
    hunk,         \* parseHunk: oldStart, oldCount, newStart, newCount, lines
    oldLineNum,   \* parseHunk: the running old line number
    newLineNum,   \* parseHunk: the running new line number
    formatter,    \* the TextFormatter's fields
    fileIdx,      \* formatDiff: the number of file-diffs rendered
    hunkIdx,      \* formatFileDiff: the number of hunks rendered (i)
    rows,         \* formatFileDiff: lines, the rows of the open block
    pairs,        \* formatFileDiff: pairedLines of the last hunk rendered
    blocks,       \* formatDiff: the rendered block of each file-diff
    output,       \* formatDiff: the text returned
    variant,      \* ai: which of the three copies of the handler runs
    comment,      \* context.payload.comment, the triggering comment
    env,          \* process.env: OPENAI_API_KEY and OPENAI_API_BASE
    fetched,      \* generateMessages: the thread fetches done so far
    answer,       \* run: the content of the completion
    calls,        \* the calls made to GitHub, the model endpoint and core
    raised,       \* ai: the Error caught from run (None: none)
    rejected      \* ai: the Error its promise rejects with (None: none)

parserVars == <<lines, currentLine, lastRead, fileDiffs, oldFile, newFile, hunks,
                hunk, oldLineNum, newLineNum>>
formatterVars == <<formatter, fileIdx, hunkIdx, rows, pairs, blocks, output>>
handlerVars == <<variant, comment, env, fetched, answer, calls, raised, rejected>>
vars == <<parserVars, formatterVars, handlerVars, pc>>

NoHunk == [oldStart |-> 0, oldCount |-> 0, newStart |-> 0, newCount |-> 0, lines |-> <<>>]
NoFormatter == [lineWidth |-> 0, showLineNumbers |-> FALSE, lineNumWidth |-> 0,
                markerWidth |-> 0, contentWidth |-> 0]
NoComment == [id |-> 0, body |-> "", user |-> None, author_association |-> "",
              thread |-> 0]
NoEnv == [OPENAI_API_KEY |-> None, OPENAI_API_BASE |-> None]

\* no handler runs: formatDiff is called on its own
NoHandler ==
    /\ variant = ""
    /\ comment = NoComment
    /\ env = NoEnv
    /\ fetched = 0
    /\ answer = ""
    /\ calls = <<>>
    /\ raised = None
    /\ rejected = None

\* ----------------------------------------------------------------- inputs

FileA == "diff --git a/x b/x"
FileB == "diff --git a/y b/y"
FileMalformed == "diff --git malformed"
HunkFull == "@@ -1,2 +1,3 @@"
HunkShort == "@@ -5 +7 @@"
HunkMalformed == "@@ -1, +1 @@"

StructLines ==
    {FileA, FileB, FileMalformed, HunkFull, HunkMalformed, "+added"}

\* the lines between a file marker and its hunks
MetaLines == {"index 1..2 100644", "--- a/x", "+++ b/x", HunkFull, "+added"}

\* "".split("\n"): the empty text is one empty line
EmptyText == <<"">>

BodyLines ==
    {" context", "+added", "-old1", "\\ No newline at end of file",
     "Binary files a/x and b/x differ", "bare", "-", ""}

HunkPrefixes == {<<HunkFull>>, <<FileA, HunkShort>>}

SeqsUpTo(S, n) == UNION {[1..k -> S] : k \in 0..n}

\* the text of a hunk header with the given numbers (a count may be absent)
HeaderText(os, oc, ns, nc, tail) ==
    "@@ -" \o NumToString(os) \o (IF oc = None THEN "" ELSE "," \o NumToString(oc[1]))
    \o " +" \o NumToString(ns) \o (IF nc = None THEN "" ELSE "," \o NumToString(nc[1]))
    \o " @@" \o tail

Counts == {None} \cup {Some(n) : n \in {0, 1, MaxNum, MaxNum * MaxNum}}
HeaderTails == {"", " fn()"}

HeaderParams == (0..MaxNum) \X Counts \X (0..MaxNum) \X Counts \X HeaderTails

Inputs ==
    {EmptyText}
    \cup {s \in SeqsUpTo(StructLines, MaxLines) : Len(s) >= 1}
    \cup {<<FileA>> \o m : m \in SeqsUpTo(MetaLines, MaxMeta)}
    \cup {p \o b : p \in HunkPrefixes, b \in SeqsUpTo(BodyLines, MaxBody)}
    \cup {<<FileA, HeaderText(h[1], h[2], h[3], h[4], h[5])>> : h \in HeaderParams}

\* ------------------------------------------------------------- DiffParser

Init ==
    /\ lines \in Inputs
    /\ currentLine = 0
    /\ lastRead = -1
    /\ pc = "parse"
    /\ fileDiffs = <<>>
    /\ oldFile = ""
    /\ newFile = ""
    /\ hunks = <<>>
    /\ hunk = NoHunk
    /\ oldLineNum = 0
    /\ newLineNum = 0
    /\ formatter = NoFormatter
    /\ fileIdx = 0
    /\ hunkIdx = 0
    /\ rows = <<>>
    /\ pairs = <<>>
    /\ blocks = <<>>
    /\ output = ""
    /\ NoHandler

\* a variant of InBounds: the loop guard written with <=
InBoundsOffByOne(i) == i <= Len(lines)

\* this.currentLine < this.lines.length
InBounds(i) == i < Len(lines)

UNDEFINED == "undefined"

\* this.lines[i]
LineAt(i) == IF i + 1 \in DOMAIN lines THEN lines[i + 1] ELSE UNDEFINED

Cur == LineAt(currentLine)

Advance == currentLine' = currentLine + 1
Stay == currentLine' = currentLine
Read == lastRead' = currentLine

FileLocals == <<oldFile, newFile, hunks>>
HunkLocals == <<hunk, oldLineNum, newLineNum>>

\* parse: a line that is no file marker is skipped
ParseSkip ==
    /\ pc = "parse"
    /\ InBounds(currentLine)
    /\ ~StartsWith(Cur, DIFF_GIT)
    /\ Read /\ Advance
    /\ UNCHANGED <<lines, pc, fileDiffs, FileLocals, HunkLocals, formatterVars, handlerVars>>

\* parse: a line that starts with "diff --git" is handed to parseFileDiff
ParseCallFileDiff ==
    /\ pc = "parse"
    /\ InBounds(currentLine)
    /\ StartsWith(Cur, DIFF_GIT)
    /\ Read /\ Stay
    /\ pc' = "parseFileDiff"
    /\ UNCHANGED <<lines, fileDiffs, FileLocals, HunkLocals, formatterVars, handlerVars>>

\* parse: the end of the input
ParseReturn ==
    /\ pc = "parse"
    /\ ~InBounds(currentLine)
    /\ pc' = "parsed"
    /\ UNCHANGED <<parserVars, handlerVars, formatterVars, handlerVars>>

\* a variant of FileDiffNoMatch: the malformed marker opens a file-diff
FileDiffNoMatchOpensScope ==
    /\ pc = "parseFileDiff"
    /\ FileMarkerMatch(Cur) = None
    /\ oldFile' = ""
    /\ newFile' = ""
    /\ hunks' = <<>>
    /\ Read /\ Advance
    /\ pc' = "skipHeaders"
    /\ UNCHANGED <<lines, fileDiffs, HunkLocals, formatterVars, handlerVars>>

\* parseFileDiff: the marker does not match, the line is skipped
FileDiffNoMatch ==
    /\ pc = "parseFileDiff"
    /\ FileMarkerMatch(Cur) = None
    /\ Read /\ Advance
    /\ pc' = "parse"
    /\ UNCHANGED <<lines, fileDiffs, FileLocals, HunkLocals, formatterVars, handlerVars>>

\* parseFileDiff: the marker matches and opens a file-diff
FileDiffMatch ==
    /\ pc = "parseFileDiff"
    /\ FileMarkerMatch(Cur) # None
    /\ oldFile' = FileMarkerMatch(Cur)[1].oldFile
    /\ newFile' = FileMarkerMatch(Cur)[1].newFile
    /\ hunks' = <<>>
    /\ Read /\ Advance
    /\ pc' = "skipHeaders"
    /\ UNCHANGED <<lines, fileDiffs, HunkLocals, formatterVars, handlerVars>>

\* return { oldFile, newFile, hunks } to parse, which pushes it
ReturnFileDiff(hs) ==
    /\ fileDiffs' = Append(fileDiffs, [oldFile |-> oldFile, newFile |-> newFile, hunks |-> hs])
    /\ oldFile' = ""
    /\ newFile' = ""
    /\ hunks' = <<>>
    /\ pc' = "parse"

\* skip optional headers: a metadata line
SkipHeaderLine ==
    /\ pc = "skipHeaders"
    /\ InBounds(currentLine)
    /\ ~StartsWith(Cur, OLD_PATH_MARK) /\ ~StartsWith(Cur, NEW_PATH_MARK)
    /\ ~StartsWith(Cur, HUNK_MARK)
    /\ ~StartsWith(Cur, DIFF_GIT)
    /\ Read /\ Advance
    /\ UNCHANGED <<lines, pc, fileDiffs, FileLocals, HunkLocals, formatterVars, handlerVars>>

\* skip optional headers: "---", "+++" or "@@" ends the loop, as does the end
SkipHeadersBreak ==
    /\ pc = "skipHeaders"
    /\ \/ ~InBounds(currentLine) /\ UNCHANGED lastRead
       \/ /\ InBounds(currentLine)
          /\ \/ StartsWith(Cur, OLD_PATH_MARK)
             \/ StartsWith(Cur, NEW_PATH_MARK)
             \/ StartsWith(Cur, HUNK_MARK)
          /\ Read
    /\ Stay
    /\ pc' = "skipPaths"
    /\ UNCHANGED <<lines, fileDiffs, FileLocals, HunkLocals, formatterVars, handlerVars>>

\* a variant of SkipHeadersNextFile: the file-diff without hunks is dropped
SkipHeadersNextFileDropped ==
    /\ pc = "skipHeaders"
    /\ InBounds(currentLine)
    /\ ~StartsWith(Cur, OLD_PATH_MARK) /\ ~StartsWith(Cur, NEW_PATH_MARK)
    /\ ~StartsWith(Cur, HUNK_MARK)
    /\ StartsWith(Cur, DIFF_GIT)
    /\ Read /\ Stay
    /\ oldFile' = ""
    /\ newFile' = ""
    /\ hunks' = <<>>
    /\ pc' = "parse"
    /\ UNCHANGED <<lines, fileDiffs, HunkLocals, formatterVars, handlerVars>>

\* skip optional headers: another "diff --git" closes the file-diff, no hunks
SkipHeadersNextFile ==
    /\ pc = "skipHeaders"
    /\ InBounds(currentLine)
    /\ ~StartsWith(Cur, OLD_PATH_MARK) /\ ~StartsWith(Cur, NEW_PATH_MARK)
    /\ ~StartsWith(Cur, HUNK_MARK)
    /\ StartsWith(Cur, DIFF_GIT)
    /\ Read /\ Stay
    /\ ReturnFileDiff(<<>>)
    /\ UNCHANGED <<lines, HunkLocals, formatterVars, handlerVars>>

\* skip one "---" line, then one "+++" line, if present
SkipPaths ==
    /\ pc = "skipPaths"
    /\ LET afterOld == IF InBounds(currentLine) /\ StartsWith(Cur, OLD_PATH_MARK)
                       THEN currentLine + 1 ELSE currentLine
           afterNew == IF InBounds(afterOld) /\ StartsWith(LineAt(afterOld), NEW_PATH_MARK)
                       THEN afterOld + 1 ELSE afterOld
       IN  /\ currentLine' = afterNew
           /\ lastRead' = IF InBounds(afterOld) THEN afterOld
                          ELSE IF InBounds(currentLine) THEN currentLine ELSE lastRead
    /\ pc' = "hunks"
    /\ UNCHANGED <<lines, fileDiffs, FileLocals, HunkLocals, formatterVars, handlerVars>>

\* parse hunks: "@@" is handed to parseHunk
HunksCallHunk ==
    /\ pc = "hunks"
    /\ InBounds(currentLine)
    /\ StartsWith(Cur, HUNK_MARK)
    /\ Read /\ Stay
    /\ pc' = "parseHunk"
    /\ UNCHANGED <<lines, fileDiffs, FileLocals, HunkLocals, formatterVars, handlerVars>>

\* parse hunks: "diff --git", or the end of the input, closes the file-diff
HunksReturn ==
    /\ pc = "hunks"
    /\ \/ ~InBounds(currentLine) /\ UNCHANGED lastRead
       \/ /\ InBounds(currentLine)
          /\ ~StartsWith(Cur, HUNK_MARK)
          /\ StartsWith(Cur, DIFF_GIT)
          /\ Read
    /\ Stay
    /\ ReturnFileDiff(hunks)
    /\ UNCHANGED <<lines, HunkLocals, formatterVars, handlerVars>>

\* parse hunks: any other line is skipped
HunksSkip ==
    /\ pc = "hunks"
    /\ InBounds(currentLine)
    /\ ~StartsWith(Cur, HUNK_MARK)
    /\ ~StartsWith(Cur, DIFF_GIT)
    /\ Read /\ Advance
    /\ UNCHANGED <<lines, pc, fileDiffs, FileLocals, HunkLocals, formatterVars, handlerVars>>

\* a variant of CountOrDefault: parseInt(match[n]) || 1, which turns 0 into 1
CountOrDefaultFalsy(group) ==
    IF group # None /\ ParseInt(group[1]) # 0 THEN ParseInt(group[1]) ELSE 1

\* match[n] ? parseInt(match[n]) : 1
CountOrDefault(group) == IF group # None THEN ParseInt(group[1]) ELSE 1

\* parseHunk: the numbers of a matched header
HunkOfHeader(match) ==
    [oldStart |-> ParseInt(match[1]),
     oldCount |-> CountOrDefault(match[2]),
     newStart |-> ParseInt(match[3]),
     newCount |-> CountOrDefault(match[4]),
     lines    |-> <<>>]

\* parseHunk: the header does not match, the line is skipped
HunkNoMatch ==
    /\ pc = "parseHunk"
    /\ HunkHeaderMatch(Cur) = None
    /\ Read /\ Advance
    /\ pc' = "hunks"
    /\ UNCHANGED <<lines, fileDiffs, FileLocals, HunkLocals, formatterVars, handlerVars>>

\* parseHunk: the header matches and opens a hunk
HunkMatch ==
    /\ pc = "parseHunk"
    /\ HunkHeaderMatch(Cur) # None
    /\ LET h == HunkOfHeader(HunkHeaderMatch(Cur)[1])
       IN  /\ hunk' = h
           /\ oldLineNum' = h.oldStart
           /\ newLineNum' = h.newStart
    /\ Read /\ Advance
    /\ pc' = "hunkBody"
    /\ UNCHANGED <<lines, fileDiffs, FileLocals, formatterVars, handlerVars>>

\* line.length > 1 ? line.substring(1) : ""
StripMarker(line) == IF Len(line) > 1 THEN SubstringFrom(line, 1) ELSE ""

DeleteLine(line, o, n) ==
    [oldLineNum |-> Some(o), newLineNum |-> None, changeType |-> "delete",
     content |-> StripMarker(line)]
\* a variant of AddLine: the added line keeps the old line number too
AddLineBothNumbers(line, o, n) ==
    [oldLineNum |-> Some(o), newLineNum |-> Some(n), changeType |-> "add",
     content |-> StripMarker(line)]
AddLine(line, o, n) ==
    [oldLineNum |-> None, newLineNum |-> Some(n), changeType |-> "add",
     content |-> StripMarker(line)]
ContextLine(line, o, n) ==
    [oldLineNum |-> Some(o), newLineNum |-> Some(n), changeType |-> "context",
     content |-> StripMarker(line)]
BareContextLine(line, o, n) ==
    [oldLineNum |-> Some(o), newLineNum |-> Some(n), changeType |-> "context",
     content |-> line]

\* hunk body: a line that does not end the hunk
InHunkBody ==
    /\ pc = "hunkBody"
    /\ InBounds(currentLine)
    /\ ~StartsWith(Cur, HUNK_MARK) /\ ~StartsWith(Cur, DIFF_GIT)

PushLine(l) == hunk' = [hunk EXCEPT !.lines = Append(@, l)]

\* hunk body: "@@", "diff --git" or the end of the input ends the hunk
HunkReturn ==
    /\ pc = "hunkBody"
    /\ \/ ~InBounds(currentLine) /\ UNCHANGED lastRead
       \/ /\ InBounds(currentLine)
          /\ StartsWith(Cur, HUNK_MARK) \/ StartsWith(Cur, DIFF_GIT)
          /\ Read
    /\ Stay
    /\ hunks' = Append(hunks, hunk)
    /\ hunk' = NoHunk
    /\ oldLineNum' = 0
    /\ newLineNum' = 0
    /\ pc' = "hunks"
    /\ UNCHANGED <<lines, fileDiffs, oldFile, newFile, formatterVars, handlerVars>>

\* hunk body: a "Binary files" line is dropped
HunkBinary ==
    /\ InHunkBody
    /\ StartsWith(Cur, BINARY_FILES)
    /\ Read /\ Advance
    /\ UNCHANGED <<lines, pc, fileDiffs, FileLocals, HunkLocals, formatterVars, handlerVars>>

\* hunk body: a deleted line
HunkDelete ==
    /\ InHunkBody
    /\ ~StartsWith(Cur, BINARY_FILES)
    /\ StartsWith(Cur, "-")
    /\ PushLine(DeleteLine(Cur, oldLineNum, newLineNum))
    /\ oldLineNum' = oldLineNum + 1
    /\ Read /\ Advance
    /\ UNCHANGED <<lines, pc, fileDiffs, FileLocals, newLineNum, formatterVars, handlerVars>>

\* hunk body: an added line
HunkAdd ==
    /\ InHunkBody
    /\ ~StartsWith(Cur, BINARY_FILES)
    /\ ~StartsWith(Cur, "-")
    /\ StartsWith(Cur, "+")
    /\ PushLine(AddLine(Cur, oldLineNum, newLineNum))
    /\ newLineNum' = newLineNum + 1
    /\ Read /\ Advance
    /\ UNCHANGED <<lines, pc, fileDiffs, FileLocals, oldLineNum, formatterVars, handlerVars>>

\* hunk body: a context line
HunkContext ==
    /\ InHunkBody
    /\ ~StartsWith(Cur, BINARY_FILES)
    /\ ~StartsWith(Cur, "-") /\ ~StartsWith(Cur, "+")
    /\ StartsWith(Cur, " ")
    /\ PushLine(ContextLine(Cur, oldLineNum, newLineNum))
    /\ oldLineNum' = oldLineNum + 1
    /\ newLineNum' = newLineNum + 1
    /\ Read /\ Advance
    /\ UNCHANGED <<lines, pc, fileDiffs, FileLocals, formatterVars, handlerVars>>

\* a variant of HunkNoNewline: the marker line takes an old line number
HunkNoNewlineCounted ==
    /\ pc = "hunkBody"
    /\ InBounds(currentLine)
    /\ ~StartsWith(Cur, HUNK_MARK) /\ ~StartsWith(Cur, DIFF_GIT)
    /\ ~StartsWith(Cur, BINARY_FILES)
    /\ ~StartsWith(Cur, "-") /\ ~StartsWith(Cur, "+") /\ ~StartsWith(Cur, " ")
    /\ StartsWith(Cur, NO_NEWLINE_MARK)
    /\ oldLineNum' = oldLineNum + 1
    /\ Read /\ Advance
    /\ UNCHANGED <<lines, pc, fileDiffs, FileLocals, hunk, newLineNum, formatterVars, handlerVars>>

\* hunk body: "\ No newline at end of file" is dropped
HunkNoNewline ==
    /\ InHunkBody
    /\ ~StartsWith(Cur, BINARY_FILES)
    /\ ~StartsWith(Cur, "-") /\ ~StartsWith(Cur, "+") /\ ~StartsWith(Cur, " ")
    /\ StartsWith(Cur, NO_NEWLINE_MARK)
    /\ Read /\ Advance
    /\ UNCHANGED <<lines, pc, fileDiffs, FileLocals, HunkLocals, formatterVars, handlerVars>>

\* hunk body: a context line without its blank prefix
HunkBareContext ==
    /\ InHunkBody
    /\ ~StartsWith(Cur, BINARY_FILES)
    /\ ~StartsWith(Cur, "-") /\ ~StartsWith(Cur, "+") /\ ~StartsWith(Cur, " ")
    /\ ~StartsWith(Cur, NO_NEWLINE_MARK)
    /\ PushLine(BareContextLine(Cur, oldLineNum, newLineNum))
    /\ oldLineNum' = oldLineNum + 1
    /\ newLineNum' = newLineNum + 1
    /\ Read /\ Advance
    /\ UNCHANGED <<lines, pc, fileDiffs, FileLocals, formatterVars, handlerVars>>

ParserNext ==
    \/ ParseSkip \/ ParseCallFileDiff \/ ParseReturn
    \/ FileDiffNoMatch \/ FileDiffMatch
    \/ SkipHeaderLine \/ SkipHeadersBreak \/ SkipHeadersNextFile
    \/ SkipPaths
    \/ HunksCallHunk \/ HunksReturn \/ HunksSkip
    \/ HunkNoMatch \/ HunkMatch
    \/ HunkReturn \/ HunkBinary \/ HunkDelete \/ HunkAdd \/ HunkContext
    \/ HunkNoNewline \/ HunkBareContext

\* ----------------------------------------------------------- TextFormatter

\* the glyphs of the renderer, each one UTF-16 code unit in the source; the
\* module is ASCII, so each is written as an ASCII character of its own
ELLIPSIS == "~"
COLUMN_BAR == "|"
RULE == "_"
RULE_CROSS == "#"
HEADER_RULE == "="

DefaultLineWidth == 80
DefaultShowLineNumbers == TRUE
LineNumWidthShown == 4
MarkerWidth == 2

\* constructor(lineWidth = 80, showLineNumbers = true)
TextFormatter(lineWidth, showLineNumbers) ==
    LET lineNumWidth == IF showLineNumbers THEN LineNumWidthShown ELSE 0
    IN  [lineWidth       |-> lineWidth,
         showLineNumbers |-> showLineNumbers,
         lineNumWidth    |-> lineNumWidth,
         markerWidth     |-> MarkerWidth,
         contentWidth    |-> lineWidth - lineNumWidth - MarkerWidth - 1]

\* center(text, width)
Center(text, width) ==
    LET padding  == Max(0, width - Len(text))
        leftPad  == padding \div 2
        rightPad == padding - leftPad
    IN  Repeat(" ", leftPad) \o text \o Repeat(" ", rightPad)

RECURSIVE RunLength(_, _, _)
\* the number of consecutive lines of the given changeType from index i (1-based)
RunLength(ls, i, type) ==
    IF i <= Len(ls) /\ ls[i].changeType = type THEN 1 + RunLength(ls, i + 1, type) ELSE 0

\* a variant of ZipRuns: the runs are zipped up to the shorter one
ZipRunsShortest(deleteLines, addLines) ==
    LET minLength == Min(Len(deleteLines), Len(addLines))
    IN  [j \in 1..minLength |-> <<Some(deleteLines[j]), Some(addLines[j])>>]

\* the pairs of one replacement block: deleteLines zipped with addLines
ZipRuns(deleteLines, addLines) ==
    LET maxLength == Max(Len(deleteLines), Len(addLines))
    IN  [j \in 1..maxLength |->
            <<IF j <= Len(deleteLines) THEN Some(deleteLines[j]) ELSE None,
              IF j <= Len(addLines) THEN Some(addLines[j]) ELSE None>>]

\* a variant of PairStep: a context line is put in the old column only
PairStepContextOldOnly(ls, i) ==
    IF ls[i].changeType = "context"
    THEN [pairs |-> <<<<Some(ls[i]), None>>>>, next |-> i + 1]
    ELSE LET nDel == RunLength(ls, i, "delete")
             nAdd == RunLength(ls, i + nDel, "add")
         IN  [pairs |-> ZipRuns(SubSeq(ls, i, i + nDel - 1),
                                SubSeq(ls, i + nDel, i + nDel + nAdd - 1)),
              next  |-> i + nDel + nAdd]

\* pairDiffLines: one iteration of the outer loop at index i (1-based): the
\* pairs it pushes and the index it leaves
PairStep(ls, i) ==
    IF ls[i].changeType = "context"
    THEN [pairs |-> <<<<Some(ls[i]), Some(ls[i])>>>>, next |-> i + 1]
    ELSE LET nDel == RunLength(ls, i, "delete")
             nAdd == RunLength(ls, i + nDel, "add")
         IN  [pairs |-> ZipRuns(SubSeq(ls, i, i + nDel - 1),
                                SubSeq(ls, i + nDel, i + nDel + nAdd - 1)),
              next  |-> i + nDel + nAdd]

RECURSIVE PairFrom(_, _)
\* pairDiffLines: the loop from index i (1-based) on
PairFrom(ls, i) ==
    IF i > Len(ls) THEN <<>>
    ELSE PairStep(ls, i).pairs \o PairFrom(ls, PairStep(ls, i).next)

pairDiffLines(ls) == PairFrom(ls, 1)

\* formatSingleLine: the line number part
LineNumStr(f, line, isOld) ==
    IF ~f.showLineNumbers THEN ""
    ELSE LET lineNum == IF isOld THEN line.oldLineNum ELSE line.newLineNum
         IN  IF lineNum # None
             THEN PadStart(NumToString(lineNum[1]), f.lineNumWidth) \o " "
             ELSE Repeat(" ", f.lineNumWidth)

\* formatSingleLine: the change marker
Marker(line, isOld) ==
    IF line.changeType = "delete" /\ isOld THEN "- "
    ELSE IF line.changeType = "add" /\ ~isOld THEN "+ "
    ELSE "  "

\* a variant of FitContent: the cut keeps contentWidth characters
FitContentOffByOne(f, content) ==
    IF Len(content) > f.contentWidth
    THEN SubstringTo(content, f.contentWidth) \o ELLIPSIS
    ELSE PadEnd(content, f.contentWidth)

\* formatSingleLine: the content, cut or padded to contentWidth
FitContent(f, content) ==
    IF Len(content) > f.contentWidth
    THEN SubstringTo(content, f.contentWidth - 1) \o ELLIPSIS
    ELSE PadEnd(content, f.contentWidth)

formatSingleLine(f, line, isOld) ==
    IF line = None THEN Repeat(" ", f.lineWidth)
    ELSE LineNumStr(f, line[1], isOld) \o Marker(line[1], isOld)
         \o FitContent(f, line[1].content)

formatLinePair(f, pair) ==
    formatSingleLine(f, pair[1], TRUE) \o " " \o COLUMN_BAR \o " "
    \o formatSingleLine(f, pair[2], FALSE)

\* formatFileDiff: the file header, the rule, the column headers and their rule
FileHeaderRows(f, fileDiff) ==
    LET fileName == IF fileDiff.newFile # "" THEN fileDiff.newFile ELSE fileDiff.oldFile
    IN  << "\nFile: " \o fileName,
           Repeat(HEADER_RULE, f.lineWidth * 2 + 3),
           Center("Old", f.lineWidth) \o " " \o COLUMN_BAR \o " " \o Center("New", f.lineWidth),
           Repeat(RULE, f.lineWidth) \o RULE \o RULE_CROSS \o RULE \o Repeat(RULE, f.lineWidth) >>

\* formatFileDiff: the row between two hunks
HunkSeparatorRow(f) ==
    Repeat(" ", f.lineWidth) \o " " \o COLUMN_BAR \o " " \o Repeat(" ", f.lineWidth)

\* formatDiff (exported): the parse is over, the default formatter is built
ConstructFormatter ==
    /\ pc = "parsed"
    /\ formatter' = TextFormatter(DefaultLineWidth, DefaultShowLineNumbers)
    /\ pc' = "formatDiff"
    /\ UNCHANGED <<parserVars, handlerVars, fileIdx, hunkIdx, rows, pairs, blocks, output>>

\* formatDiff: the next file-diff is handed to formatFileDiff
FormatFileDiffCall ==
    /\ pc = "formatDiff"
    /\ fileIdx < Len(fileDiffs)
    /\ rows' = FileHeaderRows(formatter, fileDiffs[fileIdx + 1])
    /\ hunkIdx' = 0
    /\ pc' = "formatFileDiff"
    /\ UNCHANGED <<parserVars, handlerVars, formatter, fileIdx, pairs, blocks, output>>

\* formatFileDiff: one hunk is paired and rendered
FormatHunk ==
    /\ pc = "formatFileDiff"
    /\ hunkIdx < Len(fileDiffs[fileIdx + 1].hunks)
    /\ LET h           == fileDiffs[fileIdx + 1].hunks[hunkIdx + 1]
           pairedLines == pairDiffLines(h.lines)
           separator   == IF hunkIdx > 0 THEN <<HunkSeparatorRow(formatter)>> ELSE <<>>
       IN  /\ pairs' = pairedLines
           /\ rows' = rows \o separator
                      \o [k \in 1..Len(pairedLines) |-> formatLinePair(formatter, pairedLines[k])]
    /\ hunkIdx' = hunkIdx + 1
    /\ UNCHANGED <<parserVars, handlerVars, formatter, fileIdx, blocks, output, pc>>

\* formatFileDiff: the rows are trimmed and joined into the block
FormatFileDiffReturn ==
    /\ pc = "formatFileDiff"
    /\ hunkIdx >= Len(fileDiffs[fileIdx + 1].hunks)
    /\ blocks' = Append(blocks, Join([k \in 1..Len(rows) |-> TrimEnd(rows[k])], "\n"))
    /\ fileIdx' = fileIdx + 1
    /\ pc' = "formatDiff"
    /\ UNCHANGED <<parserVars, handlerVars, formatter, hunkIdx, rows, pairs, output>>

\* formatDiff: the blocks are joined into the text returned
FormatDiffReturn ==
    /\ pc = "formatDiff"
    /\ fileIdx >= Len(fileDiffs)
    /\ output' = Join(blocks, "\n")
    /\ pc' = "done"
    /\ UNCHANGED <<parserVars, handlerVars, formatter, fileIdx, hunkIdx, rows, pairs, blocks>>

FormatterNext ==
    \/ FormatFileDiffCall \/ FormatHunk \/ FormatFileDiffReturn \/ FormatDiffReturn

Next == ParserNext \/ ConstructFormatter \/ FormatterNext

\* the exported formatDiff: parse, then render with the default formatter
Spec == Init /\ [][Next]_vars

\* ------------------------------------------- TextFormatter on its own

FormatterLines == {"-old1", "-old2", "+new1", " context", "+"}

RECURSIVE HunkLinesOf(_, _, _)
\* the DiffLines parseHunk makes of body lines that carry their marker
HunkLinesOf(body, o, n) ==
    IF Len(body) = 0 THEN <<>>
    ELSE LET line == Head(body)
         IN  IF StartsWith(line, "-")
             THEN <<DeleteLine(line, o, n)>> \o HunkLinesOf(Tail(body), o + 1, n)
             ELSE IF StartsWith(line, "+")
             THEN <<AddLine(line, o, n)>> \o HunkLinesOf(Tail(body), o, n + 1)
             ELSE <<ContextLine(line, o, n)>> \o HunkLinesOf(Tail(body), o + 1, n + 1)

\* hunk starts whose line numbers pass from four digits to five
FormatterWideStarts == {9999}

\* hunks at the top of a file, and short hunks far down a long file
FormatterHunks ==
    { [oldStart |-> 1, oldCount |-> 1, newStart |-> 1, newCount |-> 1,
       lines |-> HunkLinesOf(b, 1, 1)] : b \in SeqsUpTo(FormatterLines, MaxHunkLines) }
    \cup { [oldStart |-> st, oldCount |-> 1, newStart |-> st, newCount |-> 1,
             lines |-> HunkLinesOf(b, st, st)] :
               st \in FormatterWideStarts, b \in SeqsUpTo(FormatterLines, 2) }

FormatterFileDiffs ==
    { <<[oldFile |-> "x", newFile |-> "x", hunks |-> <<h>>]>> : h \in FormatterHunks }
    \cup { <<[oldFile |-> "x", newFile |-> "x", hunks |-> <<h, h>>]>> :
             h \in {g \in FormatterHunks : Len(g.lines) <= 1} }

FormatterWidths == (MaxWidth - 4)..MaxWidth

InitFormatter ==
    /\ lines = <<>>
    /\ currentLine = 0
    /\ lastRead = -1
    /\ pc = "formatDiff"
    /\ fileDiffs \in FormatterFileDiffs
    /\ oldFile = ""
    /\ newFile = ""
    /\ hunks = <<>>
    /\ hunk = NoHunk
    /\ oldLineNum = 0
    /\ newLineNum = 0
    /\ formatter \in {TextFormatter(w, s) : w \in FormatterWidths, s \in BOOLEAN}
    /\ fileIdx = 0
    /\ hunkIdx = 0
    /\ rows = <<>>
    /\ pairs = <<>>
    /\ blocks = <<>>
    /\ output = ""
    /\ NoHandler

\* a TextFormatter of any configuration applied to a parsed diff
SpecFormatter == InitFormatter /\ [][FormatterNext]_vars

\* ------------------------------------------------ the command handler (ai)

\* the three copies of the handler kept in the sources: index.ts 136-194 (no
\* try/catch, the checks inline), diff.ts 527-612 and index.ts 391-492 (run
\* inside try/catch)
Variants == {"first", "second", "third"}
TryCatchVariants == {"second", "third"}

CommentBodies == {"!ai why?", "!ai\nwhy?", "!ai", "hello"}
Associations == {"OWNER", "Owner", "owner", "COLLABORATOR", "MAINTAINER",
                 "MEMBER", "CONTRIBUTOR", "NONE"}
Logins == {None, Some("alice")}
EnvValues == {None, Some(""), Some("set")}

\* thread: the number of comments on the in_reply_to_id chain above this one
Comments ==
    [id : {7}, body : CommentBodies, user : Logins,
     author_association : Associations, thread : 0..MaxThread]

COMMAND_PREFIX == "!ai"

\* COMMAND_PREFIX_REGEX.test(body): /^!ai\s+/
CommandPrefixTest(body) ==
    StartsWith(body, COMMAND_PREFIX) /\ CharAt(body, Len(COMMAND_PREFIX) + 1) \in WhiteSpace

UpperCase == "ABCDEFGHIJKLMNOPQRSTUVWXYZ"
LowerCase == "abcdefghijklmnopqrstuvwxyz"

RECURSIVE ToLowerCase(_)
\* String.prototype.toLowerCase
ToLowerCase(s) ==
    IF Len(s) = 0 THEN ""
    ELSE LET c  == CharAt(s, 1)
             at == {i \in 1..Len(UpperCase) : CharAt(UpperCase, i) = c}
         IN  (IF at = {} THEN c ELSE CharAt(LowerCase, CHOOSE i \in at : TRUE))
             \o ToLowerCase(Slice(s, 2, Len(s)))

PermittedLower == {"collaborator", "maintainer", "owner"}
PermittedUpper == {"COLLABORATOR", "MAINTAINER", "OWNER"}

KeyUnset == "OPENAI_API_KEY environment variable is not set"
BaseUnset == "OPENAI_API_BASE environment variable is not set"
NoPermissionInline(login) == login \o " does not have permission to use this command"
NoPermission(user) ==
    "User " \o user \o " does not have permission to use this command."
    \o " Only collaborators, maintainers, and owners can use this command."
\* the messages of the Errors raised outside the handler's code: by the
\* runtime on user.login of a null user, by the GitHub client, by the model
\* client, and by the runtime on choices[0].message of an empty choices
NullUser == "Cannot read properties of null (reading 'login')"
ApiFailure == "HttpError"
ChatFailure == "APIError"
NoChoices == "Cannot read properties of undefined (reading 'message')"

\* !value of an environment variable: unset or empty
Falsy(value) == value = None \/ value = Some("")

\* a variant of validateCommentAuthor: members are let through as well
validateCommentAuthorMembers(v, user, authorAssociation) ==
    LET included == IF v = "third"
                    THEN authorAssociation \in PermittedUpper \cup {"MEMBER"}
                    ELSE ToLowerCase(authorAssociation) \in PermittedLower \cup {"member"}
    IN  IF included THEN None ELSE Some(NoPermission(user))

\* validateCommentAuthor of the second copy (the association lower-cased) and
\* of the third (compared as it is): the message of the Error thrown, or None
validateCommentAuthor(v, user, authorAssociation) ==
    LET included == IF v = "third"
                    THEN authorAssociation \in PermittedUpper
                    ELSE ToLowerCase(authorAssociation) \in PermittedLower
    IN  IF included THEN None ELSE Some(NoPermission(user))

\* run, from the reaction to generateMessages: the message of the Error
\* thrown, or None; createSystemMessage(formatDiffHunk(diff_hunk)) comes
\* after, a text that only the prompt holds
RunChecks ==
    IF Falsy(env.OPENAI_API_KEY) THEN Some(KeyUnset)
    ELSE IF Falsy(env.OPENAI_API_BASE) THEN Some(BaseUnset)
    ELSE IF variant = "third" /\ comment.user = None THEN Some(NullUser)
    ELSE validateCommentAuthor(variant,
                               IF comment.user = None THEN "" ELSE comment.user[1],
                               comment.author_association)

\* one call to an outside service: body and in_reply_to where it has them,
\* site the function of the handler that makes it, ok whether it succeeded
Call(api, body, inReplyTo, site, ok) ==
    [api |-> api, body |-> body, in_reply_to |-> inReplyTo, site |-> site, ok |-> ok]

WorkflowRunUrl == "https://github.com/o/r/actions/runs/1"
ERROR_HEAD == "An error occurred while processing your request:"
Details == "\n<details><summary>Details</summary>\n\n### Workflow run:\n\n"
           \o WorkflowRunUrl \o "\n\n</details>\n"

\* a variant of ErrorBody: the message is left out
ErrorBodyNoMessage(message) ==
    Join(<<ERROR_HEAD, "[View Workflow](" \o WorkflowRunUrl \o ")">>, "\n\n")

\* ai: the body of the reply that reports an Error
ErrorBody(message) ==
    Join(<<ERROR_HEAD, message, "[View Workflow](" \o WorkflowRunUrl \o ")">>, "\n\n")

\* the body of the reply that carries the completion
AnswerBody ==
    IF variant = "third"
    THEN "@" \o comment.user[1] \o " " \o answer \o "\n\n" \o Details
    ELSE answer

\* throw new Error(message), or an awaited call that rejects: caught by ai in
\* the copies with try/catch, the rejection of ai in the first
Throw(message) ==
    IF variant \in TryCatchVariants
    THEN pc' = "catch" /\ raised' = Some(message) /\ UNCHANGED rejected
    ELSE pc' = "rejected" /\ rejected' = Some(message) /\ UNCHANGED raised

Proceed(to) == pc' = to /\ UNCHANGED <<raised, rejected>>

InitHandler ==
    /\ lines = <<>>
    /\ currentLine = 0
    /\ lastRead = -1
    /\ fileDiffs = <<>>
    /\ oldFile = ""
    /\ newFile = ""
    /\ hunks = <<>>
    /\ hunk = NoHunk
    /\ oldLineNum = 0
    /\ newLineNum = 0
    /\ formatter = NoFormatter
    /\ fileIdx = 0
    /\ hunkIdx = 0
    /\ rows = <<>>
    /\ pairs = <<>>
    /\ blocks = <<>>
    /\ output = ""
    /\ pc = "ai"
    /\ variant \in Variants
    /\ comment \in Comments
    /\ env \in [OPENAI_API_KEY : EnvValues, OPENAI_API_BASE : EnvValues]
    /\ fetched = 0
    /\ answer = ""
    /\ calls = <<>>
    /\ raised = None
    /\ rejected = None

\* ai of the first copy, up to generateMessages: the environment, the user and
\* the author association are checked inline
AiFirst ==
    /\ pc = "ai" /\ variant = "first"
    /\ IF Falsy(env.OPENAI_API_KEY) THEN Throw(KeyUnset)
       ELSE IF Falsy(env.OPENAI_API_BASE) THEN Throw(BaseUnset)
       ELSE IF comment.user = None THEN Proceed("returned")
       ELSE IF ToLowerCase(comment.author_association) \notin PermittedLower
       THEN Throw(NoPermissionInline(comment.user[1]))
       ELSE Proceed("generateMessages")
    /\ UNCHANGED <<parserVars, formatterVars, variant, comment, env, fetched, answer, calls>>

\* run of the second copy, up to the reaction: a comment that is no command
\* is ignored
RunSecond ==
    /\ pc = "ai" /\ variant = "second"
    /\ IF ~CommandPrefixTest(comment.body) THEN Proceed("returned") ELSE Proceed("react")
    /\ UNCHANGED <<parserVars, formatterVars, variant, comment, env, fetched, answer, calls>>

\* run of the third copy, up to the reaction: the comment is fetched first
RunThird ==
    /\ pc = "ai" /\ variant = "third"
    /\ \E ok \in BOOLEAN :
          /\ calls' = Append(calls, Call("getReviewComment", "", 0, "run", ok))
          /\ IF ~ok THEN Throw(ApiFailure)
             ELSE IF ~CommandPrefixTest(comment.body) THEN Proceed("returned")
             ELSE Proceed("react")
    /\ UNCHANGED <<parserVars, formatterVars, variant, comment, env, fetched, answer>>

\* run: the "eyes" reaction, then the checks of the environment and the author
React ==
    /\ pc = "react"
    /\ \E ok \in BOOLEAN :
          /\ calls' = Append(calls, Call("createReaction", "eyes", 0, "run", ok))
          /\ IF ~ok THEN Throw(ApiFailure)
             ELSE IF RunChecks # None THEN Throw(RunChecks[1])
             ELSE Proceed("generateMessages")
    /\ UNCHANGED <<parserVars, formatterVars, variant, comment, env, fetched, answer>>

\* generateMessages: the calls that fetch the thread: one getReviewComment
\* per comment of the chain (fetchPastComments), in the third copy the list
\* of the review comments and the root comment when there is a chain
ThreadFetches ==
    IF variant = "third" THEN (IF comment.thread > 0 THEN 2 ELSE 0) ELSE comment.thread

FetchComments ==
    /\ pc = "generateMessages"
    /\ fetched < ThreadFetches
    /\ \E ok \in BOOLEAN :
          /\ calls' = Append(calls,
                 Call(IF variant = "third" /\ fetched = 0
                      THEN "listReviewComments" ELSE "getReviewComment",
                      "", 0, "generateMessages", ok))
          /\ IF ~ok THEN Throw(ApiFailure) /\ UNCHANGED fetched
             ELSE Proceed("generateMessages") /\ fetched' = fetched + 1
    /\ UNCHANGED <<parserVars, formatterVars, variant, comment, env, answer>>

\* generateMessages: the comments are sorted and mapped to messages
GenerateMessagesReturn ==
    /\ pc = "generateMessages"
    /\ fetched >= ThreadFetches
    /\ Proceed("chatCompletions")
    /\ UNCHANGED <<parserVars, formatterVars, variant, comment, env, fetched, answer, calls>>

\* chatCompletions and the reading of choices[0].message.content || ""
ChatOutcomes == {"rejects", "noChoices", "null", "text"}

ChatCompletions ==
    /\ pc = "chatCompletions"
    /\ \E outcome \in ChatOutcomes :
          /\ calls' = Append(calls, Call("chatCompletions", "", 0, "run", outcome # "rejects"))
          /\ IF outcome = "rejects" THEN Throw(ChatFailure) /\ UNCHANGED answer
             ELSE IF outcome = "noChoices" THEN Throw(NoChoices) /\ UNCHANGED answer
             ELSE /\ Proceed("reply")
                  /\ answer' = IF outcome = "null" THEN "" ELSE "It renames x."
    /\ UNCHANGED <<parserVars, formatterVars, variant, comment, env, fetched>>

\* the reply that carries the completion (createReviewComment, reply,
\* postReplyComment)
Reply ==
    /\ pc = "reply"
    /\ \E ok \in BOOLEAN :
          /\ calls' = Append(calls,
                 Call("createReviewComment", AnswerBody, comment.id,
                      IF variant = "first" THEN "ai" ELSE "run", ok))
          /\ IF ~ok THEN Throw(ApiFailure) ELSE Proceed("returned")
    /\ UNCHANGED <<parserVars, formatterVars, variant, comment, env, fetched, answer>>

\* ai: the catch block: the Error is reported in a reply, then core.setFailed
AiCatch ==
    /\ pc = "catch"
    /\ \E ok \in BOOLEAN :
          LET report == Call("createReviewComment", ErrorBody(raised[1]), comment.id, "ai", ok)
          IN  IF ok
              THEN /\ calls' = calls \o <<report, Call("setFailed", raised[1], 0, "ai", TRUE)>>
                   /\ pc' = "returned"
                   /\ UNCHANGED rejected
              ELSE /\ calls' = Append(calls, report)
                   /\ pc' = "rejected"
                   /\ rejected' = Some(ApiFailure)
    /\ UNCHANGED <<parserVars, formatterVars, variant, comment, env, fetched, answer, raised>>

HandlerNext ==
    \/ AiFirst \/ RunSecond \/ RunThird \/ React
    \/ FetchComments \/ GenerateMessagesReturn
    \/ ChatCompletions \/ Reply \/ AiCatch

\* one invocation of ai on a review comment, in any of the three copies
SpecHandler == InitHandler /\ [][HandlerNext]_vars

\* ============================================================== the claims

\* positions (1-based) of the input, by what the line is
StartsFile(i) == StartsWith(lines[i], DIFF_GIT)
WellFormedFile(i) == FileMarkerMatch(lines[i]) # None
MalformedFile(i) == StartsFile(i) /\ ~WellFormedFile(i)
WellFormedHunk(i) == HunkHeaderMatch(lines[i]) # None

WellFormedFiles == {i \in 1..Len(lines) : WellFormedFile(i)}

\* the k-th smallest element of a set of numbers
Nth(S, k) == CHOOSE x \in S : Cardinality({y \in S : y <= x}) = k

\* the first position after i that satisfies P, or one past the end
NextFileLine(i) ==
    LET later == {j \in (i + 1)..Len(lines) : StartsFile(j)}
    IN  IF later = {} THEN Len(lines) + 1 ELSE Nth(later, 1)
NextWellFormedFile(i) ==
    LET later == {j \in (i + 1)..Len(lines) : WellFormedFile(j)}
    IN  IF later = {} THEN Len(lines) + 1 ELSE Nth(later, 1)

ParserPcs == {"parse", "parseFileDiff", "skipHeaders", "skipPaths", "hunks",
              "parseHunk", "hunkBody"}
ParseOver == pc \notin ParserPcs

\* every hunk parsed so far: returned, of the open file-diff, or open itself
AllHunks ==
    {fileDiffs[a].hunks[b] : <<a, b>> \in
        {<<a, b>> \in (1..Len(fileDiffs)) \X (1..Len(lines)) : b <= Len(fileDiffs[a].hunks)}}
    \cup {hunks[b] : b \in 1..Len(hunks)}
    \cup (IF pc = "hunkBody" THEN {hunk} ELSE {})

OldSide == {"delete", "context"}
NewSide == {"add", "context"}

\* the number of lines of ls[1..i] whose changeType is in types
CountUpTo(ls, i, types) == Cardinality({j \in 1..i : ls[j].changeType \in types})

\* ---------------------------------------------------------------------- C1

ScenarioA == <<"@@ -1,2 +1,3 @@", " context", "+added", " context">>

Contains(text, part) ==
    \E i \in 1..Len(text) : Slice(text, i, i + Len(part) - 1) = part

\* C1: formatDiff on the bare hunk "@@ -1,2 +1,3 @@", " context", "+added",
\* " context" renders three line pairs: context in both columns, a blank old
\* column beside "+ added", and context in both columns.
C1_ScenarioARendersThreePairs ==
    (pc = "done" /\ lines = ScenarioA) =>
        /\ Len(pairs) = 3
        /\ pairs[1][1] # None /\ pairs[1][1] = pairs[1][2]
        /\ pairs[1][1][1].content = "context"
        /\ pairs[2][1] = None /\ pairs[2][2] # None
        /\ pairs[2][2][1].changeType = "add" /\ pairs[2][2][1].content = "added"
        /\ pairs[3][1] # None /\ pairs[3][1] = pairs[3][2]
        /\ pairs[3][1][1].content = "context"
        /\ Contains(output, "+ added")

\* ---------------------------------------------------------------------- C2

\* the rank of a control position: it falls on every step that leaves the cursor
PcRank ==
    CASE pc = "hunkBody"      -> 9
      [] pc = "skipHeaders"   -> 9
      [] pc = "skipPaths"     -> 8
      [] pc = "hunks"         -> 7
      [] pc = "parseHunk"     -> 6
      [] pc = "parse"         -> 5
      [] pc = "parseFileDiff" -> 4
      [] OTHER                -> 3

\* a variant of the parse: the lines left weigh more than any rank
ParseVariant == (Len(lines) - currentLine) * 10 + PcRank

LoopPcs == {"parse", "skipHeaders", "hunks", "hunkBody"}

C2_State ==
    /\ lastRead < Len(lines)
    /\ currentLine <= Len(lines)
    /\ ParseOver => currentLine = Len(lines)

C2_Step ==
    /\ currentLine' >= currentLine
    /\ (pc \in ParserPcs /\ currentLine < Len(lines) + 2) =>
            /\ ParseVariant' < ParseVariant
            /\ ParseVariant' >= 0
    /\ (pc \in LoopPcs /\ pc' = pc) => currentLine' = currentLine + 1
    /\ pc \in {"parseFileDiff", "parseHunk"} => currentLine' = currentLine + 1

\* C2: on every input parse ends without raising: the cursor never decreases,
\* every loop iteration advances it or leaves the loop (a variant falls on
\* every step), no line is read at or beyond the line count, and parse
\* returns with the cursor at the line count.
C2_ParseTerminates == [](C2_State) /\ [][C2_Step]_vars

C2_Witness ==
    /\ pc = "parsed"
    /\ Len(lines) >= 3
    /\ \E i \in 1..Len(lines) : MalformedFile(i)
    /\ \E i \in 1..Len(lines) : StartsWith(lines[i], HUNK_MARK) /\ ~WellFormedHunk(i)
    /\ WellFormedHunk(Len(lines))

\* ---------------------------------------------------------------------- C3

\* the well-formed hunk headers from line a to line b
HunkHeadersIn(a, b) == {h \in a..b : WellFormedHunk(h)}

\* C3: a malformed "diff --git" line inside the section of a well-formed
\* file-diff does not close it: the well-formed hunks after it, up to the next
\* well-formed marker, are appended to that same file-diff.
C3_MalformedMarkerKeepsScope ==
    pc = "done" =>
        \A k \in 1..Cardinality(WellFormedFiles) :
            LET f == Nth(WellFormedFiles, k)
                e == NextWellFormedFile(f)
            IN  (\E m \in (f + 1)..(e - 1) : MalformedFile(m)) =>
                    /\ k <= Len(fileDiffs)
                    /\ Len(fileDiffs[k].hunks) = Cardinality(HunkHeadersIn(f + 1, e - 1))

\* ---------------------------------------------------------------------- C4

C4_Numbered(h) ==
    \A i \in 1..Len(h.lines) :
        LET l == h.lines[i]
        IN  /\ l.changeType \in OldSide =>
                l.oldLineNum = Some(h.oldStart + CountUpTo(h.lines, i, OldSide) - 1)
            /\ l.changeType \in NewSide =>
                l.newLineNum = Some(h.newStart + CountUpTo(h.lines, i, NewSide) - 1)

C4_LastOld(h) ==
    LET old == {i \in 1..Len(h.lines) : h.lines[i].changeType \in OldSide}
    IN  (old # {} /\ h.oldCount = Cardinality(old)) =>
            h.lines[Nth(old, Cardinality(old))].oldLineNum
                = Some(h.oldStart + h.oldCount - 1)

C4_State ==
    /\ \A h \in AllHunks : C4_Numbered(h) /\ C4_LastOld(h)
    /\ pc = "hunkBody" =>
          /\ oldLineNum = hunk.oldStart + CountUpTo(hunk.lines, Len(hunk.lines), OldSide)
          /\ newLineNum = hunk.newStart + CountUpTo(hunk.lines, Len(hunk.lines), NewSide)

C4_Step ==
    (/\ pc = "hunkBody" /\ currentLine < Len(lines)
     /\ ~StartsWith(Cur, HUNK_MARK) /\ ~StartsWith(Cur, DIFF_GIT)
     /\ StartsWith(Cur, NO_NEWLINE_MARK) \/ StartsWith(Cur, BINARY_FILES))
        => /\ UNCHANGED <<hunk, oldLineNum, newLineNum>>
           /\ pc' = "hunkBody"

\* C4: in every hunk the k-th line with an old number carries oldStart + k - 1
\* and the k-th line with a new number carries newStart + k - 1; a "\" line or
\* a "Binary files" line makes no DiffLine and moves neither counter; so when
\* oldCount is the number of delete and context lines, the last of them
\* carries oldStart + oldCount - 1.
C4_LineNumbersCount == [](C4_State) /\ [][C4_Step]_vars

C4_Witness ==
    /\ pc = "done"
    /\ Len(lines) = 5
    /\ lines[2] = HunkShort
    /\ StartsWith(lines[3], "-")
    /\ StartsWith(lines[4], NO_NEWLINE_MARK)
    /\ StartsWith(lines[5], " ")
    /\ Len(fileDiffs[1].hunks[1].lines) = 2
    /\ fileDiffs[1].hunks[1].lines[2].oldLineNum = Some(6)

\* ---------------------------------------------------------------------- C8

\* C8: a deleted line has an old number and no new one, an added line a new
\* number and no old one, a context line has both.
C8_LineNumbersByKind ==
    \A h \in AllHunks : \A i \in 1..Len(h.lines) :
        LET l == h.lines[i]
        IN  /\ l.changeType \in {"delete", "add", "context"}
            /\ l.changeType = "delete"  => l.oldLineNum # None /\ l.newLineNum = None
            /\ l.changeType = "add"     => l.oldLineNum = None /\ l.newLineNum # None
            /\ l.changeType = "context" => l.oldLineNum # None /\ l.newLineNum # None

C8_Witness ==
    /\ pc = "done"
    /\ \E h \in AllHunks :
          {h.lines[i].changeType : i \in 1..Len(h.lines)} = {"delete", "add", "context"}

\* ---------------------------------------------------------------------- C9

\* the FileDiffs a parse owes: one per well-formed marker, in order
PathsOwed ==
    [k \in 1..Cardinality(WellFormedFiles) |->
        FileMarkerMatch(lines[Nth(WellFormedFiles, k)])[1]]

C9_Step ==
    /\ (pc = "parseFileDiff" /\ currentLine < Len(lines) /\ MalformedFile(currentLine + 1))
          => /\ currentLine' = currentLine + 1
             /\ fileDiffs' = fileDiffs
             /\ pc' = "parse"
    /\ pc = "parse" =>
          /\ fileDiffs' = fileDiffs
          /\ hunks' = <<>> /\ hunks = <<>>
          /\ pc' \in {"parse", "parseFileDiff", "parsed"}

C9_State ==
    ParseOver =>
        /\ Len(fileDiffs) = Len(PathsOwed)
        /\ \A k \in 1..Len(fileDiffs) :
              /\ fileDiffs[k].oldFile = PathsOwed[k].oldFile
              /\ fileDiffs[k].newFile = PathsOwed[k].newFile

\* C9: with no file-diff open, a malformed "diff --git" line makes no FileDiff
\* and moves the cursor by one line; the lines up to the next well-formed
\* marker add no file-diff and no hunk, and every later well-formed section
\* is still parsed.
C9_MalformedMarkerSkipped == [](C9_State) /\ [][C9_Step]_vars

C9_Witness ==
    /\ pc = "done"
    /\ Len(lines) >= 3
    /\ MalformedFile(1)
    /\ WellFormedHunk(2)
    /\ WellFormedFile(3)
    /\ Len(fileDiffs) = 1
    /\ Len(fileDiffs[1].hunks) = 1

\* --------------------------------------------------------------------- C10

\* the header texts that write the numbers of h (a count of 1 may be left out)
HeaderTextsOf(h) ==
    { HeaderText(h.oldStart, oc, h.newStart, nc, t) :
        oc \in {Some(h.oldCount)} \cup (IF h.oldCount = 1 THEN {None} ELSE {}),
        nc \in {Some(h.newCount)} \cup (IF h.newCount = 1 THEN {None} ELSE {}),
        t \in HeaderTails }

\* the inputs of the generated-header family
HeaderInput == Len(lines) = 2 /\ lines[1] = FileA /\ StartsWith(lines[2], HunkHeaderOpen)

\* C10: the parsed oldStart and newStart are the numbers of the header, a count
\* is the number written (an explicit 0 too) and is 1 exactly when left out;
\* "@@ -5 +7 @@" gives 5, 1, 7, 1.
C10_HeaderNumbers ==
    /\ (ParseOver /\ HeaderInput /\ lines[2] # HunkMalformed) =>
          /\ Len(fileDiffs) = 1 /\ Len(fileDiffs[1].hunks) = 1
          /\ lines[2] \in HeaderTextsOf(fileDiffs[1].hunks[1])
    /\ (ParseOver /\ Len(lines) >= 2 /\ lines[1] = FileA /\ lines[2] = HunkShort) =>
          LET h == fileDiffs[1].hunks[1]
          IN  h.oldStart = 5 /\ h.oldCount = 1 /\ h.newStart = 7 /\ h.newCount = 1

C10_Witness ==
    /\ pc = "done"
    /\ lines = <<FileA, "@@ -10,0 +7 @@ fn()">>
    /\ fileDiffs[1].hunks[1].oldStart = 10
    /\ fileDiffs[1].hunks[1].oldCount = 0
    /\ fileDiffs[1].hunks[1].newCount = 1

\* ---------------------------------------------------------------------- C7

\* the lines of a hunk body that make a DiffLine
MakesDiffLine(i) ==
    ~StartsWith(lines[i], NO_NEWLINE_MARK) /\ ~StartsWith(lines[i], BINARY_FILES)

\* the first line after the header at h that ends its hunk, or one past the end
HunkEnd(h) ==
    LET later == {j \in (h + 1)..Len(lines) :
                    StartsWith(lines[j], HUNK_MARK) \/ StartsFile(j)}
    IN  IF later = {} THEN Len(lines) + 1 ELSE Nth(later, 1)

\* the hunks of file-diff fd are those of the headers between lines f and e
C7_HunksOfSection(fd, f, e) ==
    LET headers == HunkHeadersIn(f + 1, e - 1)
    IN  /\ Len(fd.hunks) = Cardinality(headers)
        /\ \A n \in 1..Len(fd.hunks) :
              LET at == Nth(headers, n)
              IN  /\ \E t \in HeaderTextsOf(fd.hunks[n]) : StartsWith(lines[at], t)
                  /\ Len(fd.hunks[n].lines)
                        = Cardinality({j \in (at + 1)..(HunkEnd(at) - 1) : MakesDiffLine(j)})

FileHeaderMark == "\nFile: "

\* where the "File: " header rows of the output start
FileHeadersAt ==
    {i \in 1..Len(output) : Slice(output, i, i + Len(FileHeaderMark) - 1) = FileHeaderMark}

\* C7: parse returns one FileDiff per well-formed "diff --git" line, in input
\* order, sections without hunks included, each with the hunks found between
\* its marker and the next "diff --git" line; the output has one "File: <path>"
\* header per FileDiff, in the same order.
C7_OneFileDiffPerMarker ==
    ParseOver =>
        /\ Len(fileDiffs) = Cardinality(WellFormedFiles)
        /\ \A k \in 1..Len(fileDiffs) :
              LET f == Nth(WellFormedFiles, k)
              IN  /\ fileDiffs[k].oldFile = FileMarkerMatch(lines[f])[1].oldFile
                  /\ fileDiffs[k].newFile = FileMarkerMatch(lines[f])[1].newFile
                  /\ C7_HunksOfSection(fileDiffs[k], f, NextFileLine(f))
        /\ pc = "done" =>
              /\ Cardinality(FileHeadersAt) = Len(fileDiffs)
              /\ \A k \in 1..Len(fileDiffs) :
                    LET at   == Nth(FileHeadersAt, k) + Len(FileHeaderMark)
                        path == fileDiffs[k].newFile
                    IN  Slice(output, at, at + Len(path)) = path \o "\n"

C7_Witness ==
    /\ pc = "done"
    /\ Len(lines) = 4
    /\ lines[1] = FileB /\ lines[2] = FileA /\ lines[3] = HunkFull /\ lines[4] = FileB
    /\ Len(fileDiffs) = 3
    /\ Len(fileDiffs[1].hunks) = 0 /\ Len(fileDiffs[2].hunks) = 1
    /\ Cardinality(FileHeadersAt) = 3

\* ---------------------------------------------------------------------- C5

\* the hunk whose pairs the formatter holds
HunkPaired == pc = "formatFileDiff" /\ hunkIdx >= 1
PairedLines == fileDiffs[fileIdx + 1].hunks[hunkIdx].lines

\* a replacement block starts at a changed line that follows no changed line
\* of its block: the first line, one after a context line, or a delete after
\* an add
BlockStart(ls, i) ==
    /\ ls[i].changeType # "context"
    /\ \/ i = 1
       \/ ls[i - 1].changeType = "context"
       \/ ls[i].changeType = "delete" /\ ls[i - 1].changeType = "add"

\* the last line of the block that starts at i
BlockEnd(ls, i) ==
    LET stops == {e \in (i + 1)..Len(ls) : ls[e].changeType = "context" \/ BlockStart(ls, e)}
    IN  IF stops = {} THEN Len(ls) ELSE Nth(stops, 1) - 1

BlockCount(ls, i, type) ==
    Cardinality({m \in i..BlockEnd(ls, i) : ls[m].changeType = type})

\* the rows owed to the unit at i: a context line, or the block starting there
UnitRows(ls, i) ==
    IF ls[i].changeType = "context" THEN 1
    ELSE Max(BlockCount(ls, i, "delete"), BlockCount(ls, i, "add"))

Units(ls) == {i \in 1..Len(ls) : ls[i].changeType = "context" \/ BlockStart(ls, i)}

\* the rows owed to the units before line i
RowsBefore(ls, i) ==
    Cardinality({<<u, r>> \in Units(ls) \X (1..Len(ls)) : u < i /\ r <= UnitRows(ls, u)})

C5_PairsOf(ls, ps) ==
    /\ Len(ps) = RowsBefore(ls, Len(ls) + 1)
    /\ \A u \in Units(ls) :
          IF ls[u].changeType = "context"
          THEN ps[RowsBefore(ls, u) + 1] = <<Some(ls[u]), Some(ls[u])>>
          ELSE LET nDel == BlockCount(ls, u, "delete")
                   nAdd == BlockCount(ls, u, "add")
               IN  \A j \in 1..Max(nDel, nAdd) :
                      ps[RowsBefore(ls, u) + j] =
                          <<IF j <= nDel THEN Some(ls[u + j - 1]) ELSE None,
                            IF j <= nAdd THEN Some(ls[u + nDel + j - 1]) ELSE None>>

ScenarioB == HunkLinesOf(<<"-old1", "-old2", "+new1">>, 1, 1)

\* C5: pairDiffLines gives one pair (line, line) per context line and, per run
\* of deletes followed by a run of adds, max(#deletes, #adds) pairs, the j-th
\* being (j-th delete or absent, j-th add or absent); the rows rendered for a
\* single hunk are as many; "-old1", "-old2", "+new1" gives (old1, new1) and
\* (old2, absent).
C5_PairingByRuns ==
    HunkPaired =>
        /\ C5_PairsOf(PairedLines, pairs)
        /\ hunkIdx = 1 =>
              Len(rows) = Len(FileHeaderRows(formatter, fileDiffs[fileIdx + 1]))
                          + RowsBefore(PairedLines, Len(PairedLines) + 1)
        /\ PairedLines = ScenarioB =>
              pairs = << <<Some(ScenarioB[1]), Some(ScenarioB[3])>>,
                         <<Some(ScenarioB[2]), None>> >>

C5_Witness ==
    /\ HunkPaired
    /\ Len(PairedLines) = 4
    /\ PairedLines[1].changeType = "context"
    /\ SubSeq(PairedLines, 2, 4) = HunkLinesOf(<<"-old1", "-old2", "+new1">>, 2, 2)
    /\ Len(pairs) = 3
    /\ pairs[3][2] = None

\* ---------------------------------------------------------------------- C6

\* the row rendered for the k-th pair of the first hunk, before trimming
PairRow(k) == rows[Len(FileHeaderRows(formatter, fileDiffs[fileIdx + 1])) + k]

\* where the column separator of a row stands (no content holds the bar)
BarAt(row) == Nth({i \in 1..Len(row) : CharAt(row, i) = COLUMN_BAR}, 1)

OldColumn(row) == Slice(row, 1, BarAt(row) - 2)
NewColumn(row) == Slice(row, BarAt(row) + 2, Len(row))

\* the text of a column: what follows the line number part (the number, at
\* least lineNumWidth wide, and a space) and the marker
TextOfColumn(column, lineNum) ==
    LET numberPart == IF formatter.showLineNumbers
                      THEN Max(formatter.lineNumWidth, Len(NumToString(lineNum))) + 1
                      ELSE 0
    IN  Slice(column, numberPart + formatter.markerWidth + 1, Len(column))

\* the text claimed for a content in a column of the given width
C6_Fits(text, content, columnWidth) ==
    IF Len(content) > columnWidth
    THEN /\ Len(text) = columnWidth
         /\ CharAt(text, columnWidth) = ELLIPSIS
         /\ Slice(text, 1, columnWidth - 1) = Slice(content, 1, columnWidth - 1)
    ELSE /\ Len(text) = columnWidth
         /\ text = content \o Repeat(" ", columnWidth - Len(content))

C6_RowsFit ==
    \A k \in 1..Len(pairs) :
        /\ pairs[k][1] # None =>
              C6_Fits(TextOfColumn(OldColumn(PairRow(k)), pairs[k][1][1].oldLineNum[1]),
                      pairs[k][1][1].content,
                      formatter.lineWidth - formatter.lineNumWidth - 2 - 1)
        /\ pairs[k][2] # None =>
              C6_Fits(TextOfColumn(NewColumn(PairRow(k)), pairs[k][2][1].newLineNum[1]),
                      pairs[k][2][1].content,
                      formatter.lineWidth - formatter.lineNumWidth - 2 - 1)

\* C6 as claimed: for every totalWidth and showLineNumbers, a content longer
\* than columnWidth is rendered as columnWidth characters ending in one
\* ellipsis, a shorter one padded to columnWidth characters.
C6_FitsAtEveryWidth == (HunkPaired /\ hunkIdx = 1) => C6_RowsFit

\* C6 as amended: the same, for the widths that leave columnWidth >= 1.
C6_FitsAtPositiveWidth ==
    (HunkPaired /\ hunkIdx = 1
     /\ formatter.lineWidth - formatter.lineNumWidth - 2 - 1 >= 1) => C6_RowsFit

C6_Witness ==
    /\ HunkPaired /\ hunkIdx = 1
    /\ formatter.lineWidth = 7 /\ ~formatter.showLineNumbers
    /\ Len(pairs) = 3
    /\ pairs[1][1] # None /\ pairs[1][1][1].content = "context"
    /\ TextOfColumn(OldColumn(PairRow(1)), 1) = "con" \o ELLIPSIS
    /\ pairs[2][1] # None /\ pairs[2][1][1].content = "old1"
    /\ TextOfColumn(OldColumn(PairRow(2)), 2) = "old1"
    /\ pairs[3][2] # None /\ pairs[3][2][1].content = ""
    /\ TextOfColumn(NewColumn(PairRow(3)), 2) = "    "

\* --------------------------------------------------------------------- C11

\* where the column separator of a row stands: the bar, or the cross of the
\* rule row
SeparatorAt(row) ==
    Nth({i \in 1..Len(row) : CharAt(row, i) \in {COLUMN_BAR, RULE_CROSS}}, 1)

\* the length of the old column: what stands before " | "
OldColumnLength(row) == SeparatorAt(row) - 2

\* the rows of the block that have columns: all but the file name and its rule
ColumnRows == 3..Len(rows)

\* C11: within one file block, before the rows are trimmed, the old column is
\* as long in every row (column headers, rule, hunk separator, every pair row,
\* old line present or absent), so the column separator starts at one offset;
\* for every line number, of more than four digits too, and for both
\* showLineNumbers settings.
C11_ColumnsAligned ==
    pc = "formatFileDiff" =>
        \A j, k \in ColumnRows : OldColumnLength(rows[j]) = OldColumnLength(rows[k])

\* the same, of a formatter that shows line numbers, whatever the numbers
C11_AlignedWithLineNumbers ==
    (pc = "formatFileDiff" /\ formatter.showLineNumbers
     /\ formatter.contentWidth >= 1) =>
        \A j, k \in ColumnRows : OldColumnLength(rows[j]) = OldColumnLength(rows[k])

\* the same, of a formatter that shows line numbers of at most four digits
C11_AlignedUpToFourDigits ==
    (pc = "formatFileDiff" /\ formatter.showLineNumbers
     /\ formatter.contentWidth >= 1
     /\ \A h \in 1..Len(fileDiffs[fileIdx + 1].hunks) :
           \A l \in 1..Len(fileDiffs[fileIdx + 1].hunks[h].lines) :
              LET line == fileDiffs[fileIdx + 1].hunks[h].lines[l]
              IN  /\ line.oldLineNum # None => line.oldLineNum[1] < 10000
                  /\ line.newLineNum # None => line.newLineNum[1] < 10000) =>
        \A j, k \in ColumnRows : OldColumnLength(rows[j]) = OldColumnLength(rows[k])

\* --------------------------------------------------------------------- C13

RECURSIVE ColumnEntries(_, _)
\* the non-absent entries of a column (1 old, 2 new) of the pairs, top to bottom
ColumnEntries(ps, side) ==
    IF Len(ps) = 0 THEN <<>>
    ELSE (IF Head(ps)[side] = None THEN <<>> ELSE <<Head(ps)[side][1]>>)
         \o ColumnEntries(Tail(ps), side)

RECURSIVE LinesOfTypes(_, _)
\* the lines of the given change types, in their order in the hunk
LinesOfTypes(ls, types) ==
    IF Len(ls) = 0 THEN <<>>
    ELSE (IF Head(ls).changeType \in types THEN <<Head(ls)>> ELSE <<>>)
         \o LinesOfTypes(Tail(ls), types)

\* the places of a line in a column of the pairs
PlacesIn(ps, side, line) == {k \in 1..Len(ps) : ps[k][side] = Some(line)}

\* C13: pairDiffLines loses, duplicates and reorders nothing: the non-absent
\* entries of the old column are the hunk's delete and context lines in their
\* order, those of the new column its add and context lines in their order,
\* each line stands exactly once in each column it belongs to and in no other,
\* no pair has both sides absent, and the loop terminates: every iteration
\* leaves an index greater than the one it found, at most one past the end.
C13_PairingKeepsLines ==
    HunkPaired =>
        /\ ColumnEntries(pairs, 1) = LinesOfTypes(PairedLines, OldSide)
        /\ ColumnEntries(pairs, 2) = LinesOfTypes(PairedLines, NewSide)
        /\ \A l \in 1..Len(PairedLines) :
              /\ Cardinality(PlacesIn(pairs, 1, PairedLines[l]))
                     = IF PairedLines[l].changeType \in OldSide THEN 1 ELSE 0
              /\ Cardinality(PlacesIn(pairs, 2, PairedLines[l]))
                     = IF PairedLines[l].changeType \in NewSide THEN 1 ELSE 0
        /\ \A k \in 1..Len(pairs) : ~(pairs[k][1] = None /\ pairs[k][2] = None)
        /\ \A i \in 1..Len(PairedLines) :
              /\ PairStep(PairedLines, i).next > i
              /\ PairStep(PairedLines, i).next <= Len(PairedLines) + 1

\* adds standing before deletes, a context line between two blocks, and a
\* block whose runs differ in length: all lines kept, one side absent per row
C13_Witness ==
    /\ HunkPaired
    /\ Len(PairedLines) = 4
    /\ PairedLines[1].changeType = "add"
    /\ PairedLines[2].changeType = "delete"
    /\ PairedLines[3].changeType = "context"
    /\ PairedLines[4].changeType = "add"
    /\ pairs = << <<None, Some(PairedLines[1])>>,
                  <<Some(PairedLines[2]), None>>,
                  <<Some(PairedLines[3]), Some(PairedLines[3])>>,
                  <<None, Some(PairedLines[4])>> >>

\* --------------------------------------------------------------------- C12

\* the invocation of ai is over: it returned, or its promise rejected
HandlerOver == pc \in {"returned", "rejected"}

ChatCalls == {k \in 1..Len(calls) : calls[k].api = "chatCompletions"}

\* the replies posted: the calls of createReviewComment that succeeded
Posted == {k \in 1..Len(calls) : calls[k].api = "createReviewComment" /\ calls[k].ok}
ErrorReplies == {k \in Posted : StartsWith(calls[k].body, ERROR_HEAD)}
ModelReplies == Posted \ ErrorReplies

\* the author associations that are collaborator, maintainer or owner, in
\* whatever case they are written
C12_Permitted == {"COLLABORATOR", "MAINTAINER", "OWNER", "Owner", "owner"}

\* C12: in every copy of the handler chatCompletions is called, and a reply
\* made by the model posted, only after the permission check has passed: the
\* handler is past the check only for a permitted author, a model reply comes
\* after a call of chatCompletions, and for a comment whose author association
\* is not collaborator, maintainer or owner no call of chatCompletions occurs.
C12_ChatOnlyAfterPermission ==
    variant \in Variants =>
        /\ (pc \in {"generateMessages", "chatCompletions", "reply"} \/ ChatCalls # {})
              => comment.author_association \in C12_Permitted
        /\ \A k \in ModelReplies : \E c \in ChatCalls : c < k
        /\ comment.author_association \notin C12_Permitted
              => ChatCalls = {} /\ ModelReplies = {}

\* a contributor's command: the check throws, the Error is reported, and the
\* model endpoint was never called
C12_Witness ==
    /\ variant = "third" /\ HandlerOver
    /\ comment.author_association = "CONTRIBUTOR"
    /\ CommandPrefixTest(comment.body)
    /\ raised = Some(NoPermission("alice"))
    /\ ChatCalls = {}

\* --------------------------------------------------------------------- C14

SetFailedCalls == {k \in 1..Len(calls) : calls[k].api = "setFailed"}

\* the calls made to post a report of an Error, whether they succeeded or not
ReportCalls ==
    {k \in 1..Len(calls) : /\ calls[k].api = "createReviewComment"
                           /\ StartsWith(calls[k].body, ERROR_HEAD)}

\* one reply that reports the Error raised by run, in reply to the triggering
\* comment, then core.setFailed with its message; no reply of the model
C14_Reported ==
    /\ Cardinality(ErrorReplies) = 1
    /\ Cardinality(SetFailedCalls) = 1
    /\ \A k \in ErrorReplies :
          /\ Contains(calls[k].body, raised[1])
          /\ calls[k].in_reply_to = comment.id
          /\ \A f \in SetFailedCalls : f > k /\ calls[f].body = raised[1]
    /\ ModelReplies = {}

C14_Quiet == ErrorReplies = {} /\ SetFailedCalls = {}

\* C14 as claimed: in the copies of ai with try/catch, whenever run raises an
\* Error exactly one reply that begins with the error head and contains the
\* message is posted in reply to the triggering comment, then core.setFailed
\* marks the workflow failed, and no reply of the model is posted; when run
\* raises nothing there is neither an error reply nor setFailed.
C14_ErrorsReported ==
    (variant \in TryCatchVariants /\ HandlerOver) =>
        IF raised # None THEN C14_Reported ELSE C14_Quiet

\* C14 as amended: the same when the call that posts the report succeeds; when
\* it fails, ai rejects with its Error, nothing is posted and setFailed is
\* not called.
C14_ErrorsReportedWhenPosted ==
    (variant \in TryCatchVariants /\ HandlerOver) =>
        IF raised = None THEN C14_Quiet /\ ReportCalls = {} /\ rejected = None
        ELSE /\ Cardinality(ReportCalls) = 1
             /\ IF \A k \in ReportCalls : calls[k].ok
                THEN C14_Reported /\ rejected = None
                ELSE Posted = {} /\ SetFailedCalls = {} /\ rejected # None

\* the key is unset: run throws after the reaction, the Error is reported in
\* one reply and the workflow is marked failed
C14_Witness ==
    /\ variant = "second" /\ pc = "returned"
    /\ raised = Some(KeyUnset)
    /\ Len(calls) = 3
    /\ calls[1].api = "createReaction" /\ calls[1].ok
    /\ calls[2] = Call("createReviewComment", ErrorBody(KeyUnset), comment.id, "ai", TRUE)
    /\ calls[3] = Call("setFailed", KeyUnset, 0, "ai", TRUE)

====
